---- MODULE Spec2Model ----
(***************************************************************************)
(* Model of refiner/utils/config.py: option registration (add_args), the   *)
(* JSON keystore reader (_read_keystore) and default_config, which parses  *)
(* the options, resolves the wallet credential source (keystore, mnemonic  *)
(* or default wallet file) and fills wallet.path / coldkey / hotkey.       *)
(*                                                                         *)
(* Python values are tagged records.  Every Python string is a sequence of *)
(* tokens (a path is the sequence of its components, "~/ks.json" is        *)
(* <<"~", "ks.json">>, the empty string is <<>>), so that os.path          *)
(* .expanduser is modelled by what it does to the leading "~".             *)
(***************************************************************************)
EXTENDS Integers, Sequences, FiniteSets, TLC

\* ───────────────────────── Python values ─────────────────────────

\* An attribute that does not exist on the namespace / an unset environment variable.
Missing == [t |-> "missing"]
\* Python None (also JSON null).
None == [t |-> "None"]
Str(s) == [t |-> "str", s |-> s]
Num(n) == [t |-> "int", n |-> n]
List == [t |-> "list"]
Dict(m) == [t |-> "dict", m |-> m]
\* The text of a file that json.loads rejects.
Malformed == [t |-> "malformed"]

EmptyStr == Str(<<>>)

\* ───────────────────────── input domains ─────────────────────────

\* The keystore path given on the command line or in HOTKEY_KEYSTORE.
KeystorePath == Str(<<"~", "ks.json">>)
Phrase == Str(<<"seed", "phrase">>)
OldKey == Str(<<"0xold">>)
FileKey == Str(<<"0xabc">>)
FileAddr == Str(<<"0x123">>)
OldField == Str(<<"old">>)

\* A JSON object with the given privateKey and address (Missing: key absent).
KeystoreObject(pk, addr) ==
    Dict([k \in {x \in {"privateKey", "address"} :
                   (x = "privateKey" /\ pk # Missing) \/ (x = "address" /\ addr # Missing)}
            |-> IF k = "privateKey" THEN pk ELSE addr])

\* What json.loads(ks_path.read_text()) yields: a document, or Malformed when it raises.
Documents ==
    {Malformed, List, Str(<<"abc">>), Num(7), None}
    \cup {KeystoreObject(pk, addr) : pk \in {Missing, FileKey}, addr \in {Missing, FileAddr}}
    \cup {KeystoreObject(pk, Missing) : pk \in {None, EmptyStr, Num(7)}}

\* What the resolved keystore path names: nothing, a directory, or a regular file
\* (json: the outcome of parsing its text).
FsEntries ==
    {[kind |-> "absent"], [kind |-> "dir"]}
    \cup {[kind |-> "file", json |-> d] : d \in Documents}

\* The home directory os.path.expanduser finds, or Missing when neither HOME
\* nor the password database yields one.
UserHomes == {Missing, Str(<<"/", "root">>)}

EnvNames == {"ENVIRONMENT", "HOTKEY_KEYSTORE", "VANA_WALLET_PATH",
             "VANA_COLDKEY_NAME", "VANA_HOTKEY_NAME"}

EnvValues(name) ==
    CASE name = "ENVIRONMENT" -> {Missing, Str(<<"development">>)}
      [] name = "HOTKEY_KEYSTORE" -> {Missing, EmptyStr, KeystorePath}
      [] name = "VANA_WALLET_PATH" -> {Missing, EmptyStr, Str(<<"~", "w">>)}
      [] name = "VANA_COLDKEY_NAME" -> {Missing, EmptyStr, Str(<<"ck">>)}
      [] name = "VANA_HOTKEY_NAME" -> {Missing, EmptyStr, Str(<<"hk">>)}

Environments == {e \in [EnvNames -> UNION {EnvValues(n) : n \in EnvNames}] :
                   \A n \in EnvNames : e[n] \in EnvValues(n)}

WalletFields == {"keystore", "mnemonic", "private_key", "path", "coldkey", "hotkey"}

\* The options the collaborating subsystems register before cls.add_args.
CollaboratorOptions == {[opt |-> "--wallet.mnemonic", default |-> None],
                        [opt |-> "--logging.debug", default |-> None]}

\* Options a parser handed to add_args may already hold.
ForeignOptions == CollaboratorOptions
                  \cup {[opt |-> "--node.environment", default |-> Str(<<"staging">>)],
                        [opt |-> "--wallet.keystore", default |-> Str(<<"other.json">>)]}

\* ───────────────────────── state ─────────────────────────

VARIABLES
    pc,         \* position in default_config, or "args" in the registration specification
    env,        \* os.environ (after load_dotenv), restricted to the variables read
    userhome,   \* the home directory expanduser resolves "~" to
    fs,         \* the file system: resolved path -> what it names
    parser,     \* the options registered on the argparse parser
    cfg,        \* cfg.wallet: attribute name -> value, Missing when the attribute does not exist
    parsed,     \* cfg.wallet as vana.Config(parser) produced it
    branch,     \* the precedence branches entered, in order
    log,        \* the vana.logging.info calls made, in order
    reads,      \* number of _read_keystore invocations
    opened,     \* number of ks_path.read_text() calls
    error,      \* the exception that left the function, "none" when it has not raised
    addr,       \* the address the reader returned
    calls,      \* outcome of each add_args call on the parser, in order
    parses      \* number of times the parser parsed the command line

vars == <<pc, env, userhome, fs, parser, cfg, parsed, branch, log, reads, opened,
          error, addr, calls, parses>>

\* ───────────────────────── Python and library functions ─────────────────────────

\* getattr(obj, name, default): the attribute when it exists, else default.
getattr(obj, name, default) == IF obj[name] = Missing THEN default ELSE obj[name]

hasattr(obj, name) == obj[name] # Missing

\* "v is not None" in place of bool(v): the empty string passes.
IsNotNone(v) == v.t \notin {"None", "missing"}

\* bool(v), as the if / elif tests of default_config apply it.
Truthy(v) ==
    CASE v.t = "None" -> FALSE
      [] v.t = "missing" -> FALSE
      [] v.t = "str" -> v.s # <<>>
      [] v.t = "int" -> v.n # 0
      [] OTHER -> TRUE

\* os.getenv(name) or default: an empty value counts as unset.
getenv_or(name, default) == IF env[name] \in {Missing, EmptyStr} THEN default ELSE env[name]

\* os.getenv(name, default): the value when the variable is set (even to ""), else default.
getenv(name, default) == IF env[name] = Missing THEN default ELSE env[name]

\* os.path.expanduser: a leading "~" component is replaced by the home directory;
\* the path is returned unchanged when it has none or no home directory is known.
expanduser(path) ==
    IF path.s # <<>> /\ Head(path.s) = "~" /\ userhome # Missing
    THEN Str(userhome.s \o Tail(path.s))
    ELSE path

\* The file systems of the model: an entry at the place the keystore path
\* resolves to, nothing at the other candidate places.
KeystoreTargets == {Str(<<"/", "root", "ks.json">>), Str(<<"/", "cwd", "~", "ks.json">>)}

FileSystems(target) ==
    {f \in [KeystoreTargets -> FsEntries] :
        \A q \in KeystoreTargets : q # target => f[q] = [kind |-> "absent"]}

\* Path.resolve(): an absolute path is kept, a relative one is joined to the working directory.
resolve(path) ==
    IF path.s # <<>> /\ Head(path.s) = "/"
    THEN path
    ELSE Str(<<"/", "cwd">> \o path.s)

\* Path.is_file(): the path names an existing regular file.
is_file(entry) == entry.kind = "file"

\* A lookup that also rejects a key whose value is empty or null.
SubscriptNonEmpty(data, key) ==
    IF data.t = "dict"
    THEN IF key \in DOMAIN data.m /\ data.m[key] \notin {None, EmptyStr}
         THEN [raised |-> "none", value |-> data.m[key]]
         ELSE [raised |-> "KeyError"]
    ELSE [raised |-> "TypeError"]

\* data["privateKey"]: the value of the key for a dict that has it, else the exception raised.
Subscript(data, key) ==
    IF data.t = "dict"
    THEN IF key \in DOMAIN data.m
         THEN [raised |-> "none", value |-> data.m[key]]
         ELSE [raised |-> "KeyError"]
    ELSE [raised |-> "TypeError"]

\* data.get("address"): no default for a missing key.
DictGetNone(data, key, default) == IF key \in DOMAIN data.m THEN data.m[key] ELSE None

\* data.get("address", "unknown"), reached only for a dict.
DictGet(data, key, default) == IF key \in DOMAIN data.m THEN data.m[key] ELSE default

Unknown == Str(<<"unknown">>)

\* What _read_keystore hands back: the exception raised ("none" when it returns),
\* the (privateKey, address) pair, and how many times the file was read.
KeystoreFailure(exc, n) ==
    [raised |-> exc, priv |-> Missing, addr |-> Missing, opened |-> n]

\* Lines 18-22: read and parse the file at ks_path, then pick the two fields.
LoadKeystore(entry) ==
    LET data == entry.json
    IN  IF data = Malformed
        THEN KeystoreFailure("JSONDecodeError", 1)
        ELSE LET pk == Subscript(data, "privateKey")
             IN  IF pk.raised = "KeyError"
                 THEN KeystoreFailure("ValueError", 1)
                 ELSE IF pk.raised # "none"
                 THEN KeystoreFailure(pk.raised, 1)
                 ELSE [raised |-> "none", priv |-> pk.value,
                       addr |-> DictGet(data, "address", Unknown),
                       opened |-> 1]

\* The file system entry a resolved path names.
Lookup(ks_path) == IF ks_path \in DOMAIN fs THEN fs[ks_path] ELSE [kind |-> "absent"]

\* The reader without the is_file() test: read_text itself fails on a path that
\* is not a regular file.
_read_keystore_unchecked(path) ==
    LET ks_path == resolve(expanduser(path))
        entry == Lookup(ks_path)
    IN  IF entry.kind = "file" THEN LoadKeystore(entry)
        ELSE IF entry.kind = "dir" THEN KeystoreFailure("IsADirectoryError", 1)
        ELSE KeystoreFailure("FileNotFoundError", 1)

\* _read_keystore(path)
_read_keystore(path) ==
    LET ks_path == resolve(expanduser(path))
        entry == Lookup(ks_path)
    IN  IF ~is_file(entry)
        THEN KeystoreFailure("FileNotFoundError", 0)
        ELSE LoadKeystore(entry)

\* add_argument under conflict_handler="resolve": the new option replaces the old.
add_argument_resolve(p, opt, default) ==
    [raised |-> "none",
     parser |-> {a \in p : a.opt # opt} \cup {[opt |-> opt, default |-> default]}]

\* parser.add_argument(opt, default=...) under argparse's default conflict handler:
\* an option string already registered raises ArgumentError and adds nothing.
add_argument(p, opt, default) ==
    IF \E a \in p : a.opt = opt
    THEN [raised |-> "ArgumentError", parser |-> p]
    ELSE [raised |-> "none", parser |-> p \cup {[opt |-> opt, default |-> default]}]

\* add_args(cls, parser): the two registrations in order; the second is not
\* attempted when the first raises.
add_args(p) ==
    LET first == add_argument(p, "--node.environment",
                              getenv("ENVIRONMENT", Str(<<"production">>)))
    IN  IF first.raised # "none"
        THEN first
        ELSE add_argument(first.parser, "--wallet.keystore", getenv("HOTKEY_KEYSTORE", None))

\* The default registered for an option.
OptionDefault(p, opt) == (CHOOSE a \in p : a.opt = opt).default

\* The precedence with the mnemonic tested before the keystore.
SelectBranchMnemonicFirst(wallet) ==
    IF Truthy(getattr(wallet, "mnemonic", None)) THEN "mnemonic"
    ELSE IF Truthy(getattr(wallet, "keystore", None)) THEN "keystore"
    ELSE "fallback"

\* The precedence with the elif test dropped: anything but a keystore is a mnemonic.
SelectBranchNoFallback(wallet) ==
    IF Truthy(getattr(wallet, "keystore", None)) THEN "keystore"
    ELSE "mnemonic"

\* Which precedence branch the if / elif / else of default_config enters.
SelectBranch(wallet) ==
    IF Truthy(getattr(wallet, "keystore", None)) THEN "keystore"
    ELSE IF Truthy(getattr(wallet, "mnemonic", None)) THEN "mnemonic"
    ELSE "fallback"

\* The keystore branch without the line that clears the mnemonic.
KeystoreAssignKeepsMnemonic(wallet, priv) ==
    [wallet EXCEPT !["private_key"] = priv]

\* The assignments of the keystore branch after the reader returned.
KeystoreAssign(wallet, priv) ==
    [wallet EXCEPT !["private_key"] = priv, !["mnemonic"] = None]

DefaultWalletPath == Str(<<"~", ".vana", "wallets", "refiner">>)
DefaultName == Str(<<"refiner">>)

\* The values the default filler assigns to wallet.path, coldkey and hotkey.
wallet_path == getenv("VANA_WALLET_PATH", expanduser(DefaultWalletPath))
coldkey_name == getenv("VANA_COLDKEY_NAME", DefaultName)
hotkey_name == getenv("VANA_HOTKEY_NAME", DefaultName)

\* if hasattr(obj, name): obj.name = value  else: setattr(obj, name, value)
SetOrCreate(obj, name, value) ==
    IF hasattr(obj, name) THEN [obj EXCEPT ![name] = value]
    ELSE [obj EXCEPT ![name] = value]

FillDefaults(wallet) ==
    SetOrCreate(SetOrCreate(SetOrCreate(wallet, "path", wallet_path),
                            "coldkey", coldkey_name),
                "hotkey", hotkey_name)

\* ───────────────────────── bounds ─────────────────────────

\* How many times add_args is applied to one parser in the registration specification.
MaxAddArgsCalls == 2

\* ───────────────────────── default_config ─────────────────────────

NoWallet == [f \in WalletFields |-> Missing]

\* Values of sys.argv's --wallet.keystore: Missing when the flag is not given.
CliKeystore == {Missing, EmptyStr, KeystorePath}

\* The state at process start, after load_dotenv().
Init ==
    /\ pc = "start"
    /\ env \in Environments
    /\ userhome \in UserHomes
    /\ fs \in FileSystems(resolve(expanduser(KeystorePath)))
    /\ parser = {}
    /\ cfg = NoWallet
    /\ parsed = NoWallet
    /\ branch = <<>>
    /\ log = <<>>
    /\ reads = 0
    /\ opened = 0
    /\ error = "none"
    /\ addr = Missing
    /\ calls = <<>>
    /\ parses = 0

\* Lines 51-57: a fresh parser, the collaborators' options, then cls.add_args(parser).
Register ==
    /\ pc = "start"
    /\ LET r == add_args(CollaboratorOptions)
       IN  /\ parser' = r.parser
           /\ calls' = Append(calls, r.raised)
           /\ error' = r.raised
           /\ pc' = IF r.raised = "none" THEN "registered" ELSE "raised"
    /\ UNCHANGED <<env, userhome, fs, cfg, parsed, branch, log, reads, opened, addr, parses>>

\* Line 59: vana.Config(parser) parses the command line over the registered
\* defaults.  wallet.keystore is the flag's value or the registered default; the
\* collaborators' fields (mnemonic, private_key, path, coldkey, hotkey) and the
\* absence of an attribute are the collaborator's choice.
Config ==
    /\ pc = "registered"
    /\ \E cli \in CliKeystore, dropped \in BOOLEAN,
          mn \in {Missing, None, EmptyStr, Phrase},
          key \in {Missing, OldKey},
          pre \in {{}, {"path"}, {"path", "coldkey", "hotkey"}} :
          LET ks == IF dropped THEN Missing
                    ELSE IF cli = Missing THEN OptionDefault(parser, "--wallet.keystore")
                    ELSE cli
              w == [f \in WalletFields |->
                      CASE f = "keystore" -> ks
                        [] f = "mnemonic" -> mn
                        [] f = "private_key" -> key
                        [] OTHER -> IF f \in pre THEN OldField ELSE Missing]
          IN  /\ dropped => cli = Missing
              /\ cfg' = w
              /\ parsed' = w
    /\ parses' = parses + 1
    /\ pc' = "parsed"
    /\ UNCHANGED <<env, userhome, fs, parser, branch, log, reads, opened, error, addr, calls>>

\* Lines 63-76: the wallet selection precedence, the keystore reader included.
Resolve ==
    /\ pc = "parsed"
    /\ LET keystore_path == getattr(cfg, "keystore", None)
           taken == SelectBranch(cfg)
       IN  /\ branch' = Append(branch, taken)
           /\ IF taken = "keystore"
              THEN LET r == _read_keystore(keystore_path)
                   IN  /\ reads' = reads + 1
                       /\ opened' = opened + r.opened
                       /\ IF r.raised = "none"
                          THEN /\ cfg' = KeystoreAssign(cfg, r.priv)
                               /\ addr' = r.addr
                               /\ log' = Append(log, [kind |-> "keystore",
                                                      path |-> keystore_path,
                                                      address |-> r.addr])
                               /\ error' = error
                               /\ pc' = "resolved"
                          ELSE /\ error' = r.raised
                               /\ pc' = "raised"
                               /\ UNCHANGED <<cfg, addr, log>>
              ELSE /\ log' = Append(log, [kind |-> taken])
                   /\ pc' = "resolved"
                   /\ UNCHANGED <<cfg, addr, reads, opened, error>>
    /\ UNCHANGED <<env, userhome, fs, parser, parsed, calls, parses>>

\* Lines 78-98: the default filler, then return cfg.
Fill ==
    /\ pc = "resolved"
    /\ cfg' = FillDefaults(cfg)
    /\ pc' = "done"
    /\ UNCHANGED <<env, userhome, fs, parser, parsed, branch, log, reads, opened,
                   error, addr, calls, parses>>

Next == Register \/ Config \/ Resolve \/ Fill

Spec == Init /\ [][Next]_vars

\* ───────────────────────── add_args on an arbitrary parser ─────────────────────────

InitArgs ==
    /\ pc = "args"
    /\ env \in Environments
    /\ userhome \in UserHomes
    /\ fs = [q \in KeystoreTargets |-> [kind |-> "absent"]]
    /\ parser \in SUBSET ForeignOptions
    /\ cfg = NoWallet
    /\ parsed = NoWallet
    /\ branch = <<>>
    /\ log = <<>>
    /\ reads = 0
    /\ opened = 0
    /\ error = "none"
    /\ addr = Missing
    /\ calls = <<>>
    /\ parses = 0

\* One call of add_args(cls, parser) on the parser as it stands.
AddArgs ==
    /\ pc = "args"
    /\ Len(calls) < MaxAddArgsCalls
    /\ LET r == add_args(parser)
       IN  /\ parser' = r.parser
           /\ calls' = Append(calls, r.raised)
           /\ error' = r.raised
    /\ UNCHANGED <<pc, env, userhome, fs, cfg, parsed, branch, log, reads, opened,
                   addr, parses>>

NextArgs == AddArgs

SpecArgs == InitArgs /\ [][NextArgs]_vars

\* ───────────────────────── properties ─────────────────────────

\* default_config has passed the precedence resolver (it returned, raised, or is
\* about to run the default filler).
PastResolver == pc \in {"resolved", "done", "raised"}

\* The parsed wallet.keystore / wallet.mnemonic is set and non-empty.
KeystoreSet == parsed["keystore"] \notin {Missing, None, EmptyStr}
MnemonicSet == parsed["mnemonic"] \notin {Missing, None, EmptyStr}

\* What the keystore path of the run names once expanded and resolved.
KsFile == fs[resolve(expanduser(KeystorePath))]

\* The keystore path names a regular file holding a JSON object.
FileIsObject == KsFile.kind = "file" /\ KsFile.json.t = "dict"
HasPrivateKey == FileIsObject /\ "privateKey" \in DOMAIN KsFile.json.m

\* C1: for a keystore file that is a JSON object containing privateKey and any
\* initial mnemonic, default_config with that keystore path does not fail, sets
\* wallet.private_key to the file's privateKey and wallet.mnemonic to None; and
\* every returned configuration for which a keystore path was supplied has
\* mnemonic None.
C1_KeystoreSetsKeyAndClearsMnemonic ==
    /\ (PastResolver /\ KeystoreSet /\ HasPrivateKey) =>
          /\ pc # "raised"
          /\ cfg["private_key"] = KsFile.json.m["privateKey"]
          /\ cfg["mnemonic"] = None
    /\ (pc = "done" /\ KeystoreSet) => cfg["mnemonic"] = None

C1_Witness ==
    /\ pc = "done"
    /\ KeystoreSet
    /\ parsed["mnemonic"] = Phrase
    /\ parsed["private_key"] = OldKey
    /\ cfg["private_key"] = FileKey
    /\ cfg["mnemonic"] = None

\* C2 as stated: every run enters exactly one branch, and whenever both a
\* keystore path and a mnemonic are set the keystore branch is taken, the
\* keystore is read, the mnemonic is cleared and neither the mnemonic nor the
\* fallback log is emitted.
C2_Original ==
    PastResolver =>
        /\ Len(branch) = 1
        /\ (KeystoreSet /\ MnemonicSet) =>
              /\ branch[1] = "keystore"
              /\ opened = 1
              /\ cfg["mnemonic"] = None
              /\ \A i \in 1..Len(log) : log[i].kind \notin {"mnemonic", "fallback"}

\* C2 amended: every run enters exactly one branch, chosen in the order keystore,
\* mnemonic, fallback; whenever both a keystore path and a mnemonic are set the
\* keystore branch is taken and the reader is invoked, neither the mnemonic nor
\* the fallback log is emitted, and the mnemonic is cleared exactly when the
\* reader returns: when it raises, the run aborts with the mnemonic as parsed.
C2_ExactlyOneBranchKeystoreFirst ==
    PastResolver =>
        /\ Len(branch) = 1
        /\ branch[1] = "keystore" <=> KeystoreSet
        /\ branch[1] = "mnemonic" <=> (~KeystoreSet /\ MnemonicSet)
        /\ branch[1] = "fallback" <=> (~KeystoreSet /\ ~MnemonicSet)
        /\ (KeystoreSet /\ MnemonicSet) =>
              /\ reads = 1
              /\ \A i \in 1..Len(log) : log[i].kind \notin {"mnemonic", "fallback"}
              /\ pc # "raised" => (opened = 1 /\ cfg["mnemonic"] = None)
              /\ pc = "raised" => cfg["mnemonic"] = parsed["mnemonic"]

C2_Witness ==
    /\ pc = "done"
    /\ KeystoreSet /\ MnemonicSet
    /\ branch = <<"keystore">>
    /\ Len(log) = 1 /\ log[1].kind = "keystore"
    /\ cfg["mnemonic"] = None

\* C3: for a keystore file that exists and parses as JSON but has no privateKey
\* field (a JSON document that is not an object included), resolution fails
\* with ValueError and wallet.private_key and wallet.mnemonic keep their parsed
\* values.
C3_MissingPrivateKeyIsValueError ==
    (PastResolver /\ KeystoreSet /\ KsFile.kind = "file" /\ KsFile.json # Malformed
                  /\ ~HasPrivateKey) =>
        /\ pc = "raised"
        /\ error = "ValueError"
        /\ cfg = parsed

\* C4: for a non-empty keystore path that names no existing regular file,
\* resolution fails with FileNotFoundError, which leaves default_config, and the
\* file contents are never read.
C4_NotAFileIsNotFound ==
    (PastResolver /\ KeystoreSet /\ KsFile.kind # "file") =>
        /\ pc = "raised"
        /\ error = "FileNotFoundError"
        /\ opened = 0
        /\ reads = 1

C4_Witness ==
    /\ pc = "raised"
    /\ KeystoreSet
    /\ KsFile.kind = "dir"
    /\ error = "FileNotFoundError"

\* C5: with neither a keystore path nor a mnemonic after parsing, the resolver
\* assigns neither wallet.private_key nor wallet.mnemonic, never invokes the
\* keystore reader, and emits the fallback log exactly once.
C5_FallbackLeavesCredentials ==
    (PastResolver /\ ~KeystoreSet /\ ~MnemonicSet) =>
        /\ pc # "raised"
        /\ cfg["private_key"] = parsed["private_key"]
        /\ cfg["mnemonic"] = parsed["mnemonic"]
        /\ cfg["keystore"] = parsed["keystore"]
        /\ reads = 0 /\ opened = 0
        /\ log = <<[kind |-> "fallback"]>>

C5_Witness ==
    /\ pc = "done"
    /\ parsed["keystore"] = None
    /\ parsed["mnemonic"] = EmptyStr
    /\ log = <<[kind |-> "fallback"]>>
    /\ cfg["private_key"] = Missing

\* The value the environment gives a field, else the given default.
EnvOr(name, default) == IF env[name] # Missing THEN env[name] ELSE default

\* C6 as stated: every returned configuration has wallet.path / coldkey / hotkey
\* equal to the environment variable when present (empty included), otherwise
\* to the literals ~/.vana/wallets/refiner, refiner, refiner.
C6_Original ==
    pc = "done" =>
        /\ cfg["path"] = EnvOr("VANA_WALLET_PATH", Str(<<"~", ".vana", "wallets", "refiner">>))
        /\ cfg["coldkey"] = EnvOr("VANA_COLDKEY_NAME", Str(<<"refiner">>))
        /\ cfg["hotkey"] = EnvOr("VANA_HOTKEY_NAME", Str(<<"refiner">>))

\* C6 amended: every returned configuration has wallet.path / coldkey / hotkey
\* equal to the environment variable when present (empty included, taken as is);
\* otherwise coldkey and hotkey are refiner, and path is ~/.vana/wallets/refiner
\* with the leading ~ replaced by the user's home directory (the literal only
\* when no home directory is known).
C6_FillerValues ==
    pc = "done" =>
        /\ cfg["path"] = EnvOr("VANA_WALLET_PATH",
                               IF userhome = Missing
                               THEN Str(<<"~", ".vana", "wallets", "refiner">>)
                               ELSE Str(userhome.s \o <<".vana", "wallets", "refiner">>))
        /\ cfg["coldkey"] = EnvOr("VANA_COLDKEY_NAME", Str(<<"refiner">>))
        /\ cfg["hotkey"] = EnvOr("VANA_HOTKEY_NAME", Str(<<"refiner">>))

C6_Witness ==
    /\ pc = "done"
    /\ parsed["path"] = OldField
    /\ env["VANA_WALLET_PATH"] = Missing
    /\ env["VANA_COLDKEY_NAME"] = EmptyStr
    /\ userhome # Missing
    /\ cfg["path"] = Str(<<"/", "root", ".vana", "wallets", "refiner">>)
    /\ cfg["coldkey"] = EmptyStr

ReaderErrors == {"FileNotFoundError", "ValueError", "JSONDecodeError", "TypeError"}

\* C7: the keystore reader is invoked at most once per default_config call and
\* never retried; every failure it raises (not found, missing privateKey,
\* malformed JSON) leaves default_config, so that no configuration is returned,
\* no wallet-source log is emitted and the default filler does not run; a
\* missing address is the one tolerated absence: it yields "unknown" and no
\* failure.
C7_OneShotFailFast ==
    /\ reads <= 1
    /\ (PastResolver /\ KeystoreSet /\ ~HasPrivateKey) =>
          /\ pc = "raised"
          /\ error \in ReaderErrors
          /\ reads = 1
          /\ log = <<>>
          /\ cfg = parsed
    /\ (PastResolver /\ KeystoreSet /\ KsFile.kind = "file" /\ KsFile.json = Malformed) =>
          error = "JSONDecodeError"
    /\ (PastResolver /\ KeystoreSet /\ HasPrivateKey /\ "address" \notin DOMAIN KsFile.json.m) =>
          /\ pc # "raised"
          /\ error = "none"
          /\ addr = Str(<<"unknown">>)
          /\ log = <<[kind |-> "keystore", path |-> parsed["keystore"],
                      address |-> Str(<<"unknown">>)]>>

C7_Witness ==
    /\ pc = "raised"
    /\ KeystoreSet
    /\ KsFile.kind = "file" /\ KsFile.json = Malformed
    /\ error = "JSONDecodeError"
    /\ reads = 1
    /\ log = <<>>

\* add_args was applied in this step.
AddArgsStep == calls' # calls

Registered(p) == {a.opt : a \in p}

\* C8 as stated: a second add_args call on the same parser succeeds.
C8_Original ==
    (Len(calls) >= 2 /\ calls[1] = "none") => calls[2] = "none"

\* C8 amended: add_args never removes or alters a registered option and never
\* parses; on a parser holding neither option it adds --node.environment and
\* --wallet.keystore with their environment defaults; a second call on the same
\* parser raises argparse's conflict error (ArgumentError) and leaves the
\* registered options as they were after the first call.
C8_AdditiveSecondCallConflicts ==
    [][AddArgsStep =>
          /\ parser \subseteq parser'
          /\ parses' = parses
          /\ Registered(parser) \cap {"--node.environment", "--wallet.keystore"} = {} =>
                /\ calls'[Len(calls')] = "none"
                /\ parser' = parser \cup
                      {[opt |-> "--node.environment",
                        default |-> EnvOr("ENVIRONMENT", Str(<<"production">>))],
                       [opt |-> "--wallet.keystore",
                        default |-> EnvOr("HOTKEY_KEYSTORE", None)]}
          /\ (calls # <<>> /\ calls[Len(calls)] = "none") =>
                /\ calls'[Len(calls')] = "ArgumentError"
                /\ parser' = parser
    ]_vars

C8_Witness ==
    /\ pc = "args"
    /\ calls = <<"none", "ArgumentError">>
    /\ Registered(parser) = {"--logging.debug", "--node.environment", "--wallet.keystore"}

\* C9: the keystore branch is entered only for a set, non-empty wallet.keystore;
\* when it is missing, None or "" and a non-empty mnemonic is set, the mnemonic
\* branch runs, the reader is not invoked, wallet.mnemonic and
\* wallet.private_key stay as parsed and only the mnemonic log is emitted.
C9_MnemonicBranch ==
    PastResolver =>
        /\ "keystore" \in {branch[i] : i \in 1..Len(branch)} => KeystoreSet
        /\ (parsed["keystore"] \in {Missing, None, EmptyStr} /\ MnemonicSet) =>
              /\ branch = <<"mnemonic">>
              /\ reads = 0 /\ opened = 0
              /\ pc # "raised"
              /\ cfg["mnemonic"] = parsed["mnemonic"]
              /\ cfg["private_key"] = parsed["private_key"]
              /\ log = <<[kind |-> "mnemonic"]>>

C9_Witness ==
    /\ pc = "done"
    /\ parsed["keystore"] = EmptyStr
    /\ parsed["mnemonic"] = Phrase
    /\ cfg["mnemonic"] = Phrase
    /\ log = <<[kind |-> "mnemonic"]>>

\* C10: the reader accepts a keystore on the presence of privateKey alone: for a
\* JSON object whose privateKey is null, empty or a non-string, it returns that
\* value without error, default_config sets wallet.private_key to it and clears
\* wallet.mnemonic.
C10_PresenceNotValue ==
    (PastResolver /\ KeystoreSet /\ HasPrivateKey
                  /\ KsFile.json.m["privateKey"] \in {None, EmptyStr, Num(7)}) =>
        /\ pc # "raised"
        /\ error = "none"
        /\ cfg["private_key"] = KsFile.json.m["privateKey"]
        /\ cfg["mnemonic"] = None

\* A returned configuration with no usable credential although a mnemonic was supplied.
C10_Witness ==
    /\ pc = "done"
    /\ parsed["mnemonic"] = Phrase
    /\ cfg["private_key"] = None
    /\ cfg["mnemonic"] = None

====
